---- MODULE Spec2Model ----
(***************************************************************************)
(* State-machine model of run_tests and sftp_operation of sftp_tester.py:  *)
(* artifact generation, the pooled or per-transfer sessions, the thread    *)
(* pool that runs one sftp_operation per artifact, the collection of the   *)
(* results into the report, and the cleanup of the scratch directory.      *)
(***************************************************************************)
EXTENDS Integers, Sequences, FiniteSets, TLC

\* Bounds of the model.
MaxFiles == 3
MaxThreads == 2
MaxCpu == 2
MaxFairFiles == 2
MaxLoad == 5

VARIABLES
    config,       \* the SFTPConfig fields run_tests reads
    cpu_count,    \* what os.cpu_count() returns on the host
    pc,           \* position of the orchestrator thread inside run_tests
    raised,       \* exception propagating out of run_tests ("none" if none)
    temp_dir,     \* TRUE while the scratch directory exists
    scratch,      \* indices i whose file test_i.zip exists in the scratch directory
    paths,        \* len(paths): entries test_0.zip .. test_{paths-1}.zip
    fsize,        \* byte size of the files named in paths, in order
    clients,      \* pooled sessions: slot -> "none" | "open" | "closed"
    nclients,     \* len(clients) built so far (line 159 comprehension)
    nclosed,      \* position of the close loop of line 181
    submitted,    \* number of futures submitted so far
    queue,        \* executor work queue (submitted, not yet started)
    numThreads,   \* worker threads the executor has spawned
    task,         \* per artifact: position and locals of its sftp_operation call
    yielded,      \* futures already yielded by as_completed
    snapshot,     \* futures as_completed found finished when it started, not yet yielded
    completion,   \* futures finished and not yet yielded, in the order they finished
    report,       \* report.file_stats
    opens,        \* successful _create_client calls so far
    closes,       \* client.close() calls so far
    remote        \* indices i with a remote copy, whole or partial, under root_dir

vars == <<config, cpu_count, pc, raised, temp_dir, scratch, paths, fsize, clients,
          nclients, nclosed, submitted, queue, numThreads, task, yielded,
          snapshot, completion, report, opens, closes, remote>>

\* Values of sftp_sleep_interval on both sides of the test of line 142.
SleepIntervals == {0, 1}

N == config.num_test_files

Artifacts == 0 .. (N - 1)

\* line 157
max_workers == IF config.sftp_threads > 0 THEN config.sftp_threads ELSE cpu_count

\* truthiness of config.keep_alive_enabled (an int in the configuration)
keep_alive == config.keep_alive_enabled # 0

\* Positions of sftp_operation at which a worker thread is occupied.
RunningPcs == {"connect", "open_sftp", "put", "remove", "sleep"}

FinishedPcs == {"returned", "raised"}

Running == {i \in Artifacts : task[i].pc \in RunningPcs}

Finished == {i \in Artifacts : task[i].pc \in FinishedPcs}

\* Positions between client.open_sftp() returning and sftp.close().
UsingPcs == {"put", "remove"}

\* ClientOf with the round-robin shifted by one.
ClientOf_Shifted(idx) == (idx + 1) % max_workers

\* line 166: the client handed to the task of submission index idx
ClientOf(idx) == idx % max_workers

\* Tasks that currently hold an SFTP channel on pooled session j.
UsersOf(j) == {i \in Artifacts : task[i].pc \in UsingPcs /\ ClientOf(i) = j}

\* The locals of a call that is not submitted yet: slot is the index of its
\* pooled client, timer the state of the transfer timer (lines 116, 138), timed
\* the SFTP requests made while it ran, attempted and completed the requests
\* made and those that returned.
NewTask == [pc |-> "unsubmitted", attempts |-> 0, pooled |-> FALSE, client |-> "none",
            slot |-> -1, size |-> 0,
            timer |-> "off", timed |-> {}, attempted |-> {}, completed |-> {},
            connect_time |-> "unset", transfer_time |-> "unset",
            success |-> FALSE, error |-> "none", slept |-> FALSE]

\* The FileStat a finished call returned.
FileStat(i) == [name |-> i,
                size |-> task[i].size,
                connect_time |-> task[i].connect_time,
                transfer_time |-> task[i].transfer_time,
                success |-> task[i].success,
                error |-> task[i].error]

\* The artifact size of the runs that vary the concurrency.
TestSize == 1000

\* Artifact sizes of the runs that vary min and max.
SizeValues == {1000, 1001}

\* Configurations that vary the artifact count, the concurrency, keep-alive
\* and the sleep interval, with min = max.
Configs ==
    [num_test_files : 0 .. MaxFiles,
     sftp_threads : 0 .. MaxThreads,
     keep_alive_enabled : {0, 1},
     sftp_sleep_interval : SleepIntervals,
     min_test_file_size_bytes : {TestSize},
     max_test_file_size_bytes : {TestSize}]

\* Configurations that vary the artifact count and min <= max, with one worker.
SizeConfigs ==
    {c \in [num_test_files : 0 .. MaxFiles,
            sftp_threads : {1},
            keep_alive_enabled : {0, 1},
            sftp_sleep_interval : SleepIntervals,
            min_test_file_size_bytes : SizeValues,
            max_test_file_size_bytes : SizeValues] :
        c.min_test_file_size_bytes <= c.max_test_file_size_bytes}

InitWith(configs) ==
    /\ config \in configs
    /\ cpu_count \in 1 .. MaxCpu
    \* os.cpu_count() is read only when sftp_threads <= 0 (line 157)
    /\ (config.sftp_threads > 0 => cpu_count = 1)
    \* the runs explored: artifacts plus workers within MaxLoad
    /\ N + max_workers <= MaxLoad
    /\ pc = "mkdtemp"
    /\ raised = "none"
    /\ temp_dir = FALSE
    /\ scratch = {}
    /\ paths = 0
    /\ fsize = <<>>
    /\ clients = [j \in 0 .. (max_workers - 1) |-> "none"]
    /\ nclients = 0
    /\ nclosed = 0
    /\ submitted = 0
    /\ queue = <<>>
    /\ numThreads = 0
    /\ task = [i \in Artifacts |-> NewTask]
    /\ yielded = {}
    /\ snapshot = {}
    /\ completion = <<>>
    /\ report = <<>>
    /\ opens = 0
    /\ closes = 0
    /\ remote = {}

Init == InitWith(Configs)

InitSize == InitWith(SizeConfigs)

\* The configurations of Configs with at most MaxFairFiles artifacts.
FairConfigs == {c \in Configs : c.num_test_files <= MaxFairFiles}

InitFair == InitWith(FairConfigs)

(***************************************************************************)
(* run_tests: the orchestrator thread                                      *)
(***************************************************************************)

\* line 148: tempfile.mkdtemp() succeeds
Mkdtemp ==
    /\ pc = "mkdtemp"
    /\ temp_dir' = TRUE
    /\ pc' = "generate"
    /\ UNCHANGED <<config, cpu_count, snapshot, completion, fsize, raised, scratch,
                   paths, clients, nclients, nclosed, submitted, queue, numThreads,
                   task, yielded, report, opens, closes, remote>>

\* line 148: tempfile.mkdtemp() raises, before the try block is entered
MkdtempFail ==
    /\ pc = "mkdtemp"
    /\ raised' = "SetupError"
    /\ pc' = "done"
    /\ UNCHANGED <<config, cpu_count, snapshot, completion, fsize, temp_dir,
                   scratch, paths, clients, nclients, nclosed, submitted, queue,
                   numThreads, task, yielded, report, opens, closes, remote>>

\* Bytes of a ZIP archive with the one member "data.bin" besides the member's
\* data: local header 30 + 8, central directory entry 46 + 8, end record 22.
ZipContainerBytes == 114

\* Bytes zlib adds to a run of bytes it cannot compress (one stored block).
StoredBlockBytes == 5

\* lines 44-50: size of the archive create_random_zip writes around size
\* bytes of os.urandom, which deflate cannot compress: the data goes into the
\* archive as a stored block (sizes up to one block)
ZipFileSize(size) == size + StoredBlockBytes + ZipContainerBytes

\* lines 152-156: one iteration of the generation loop: the size is drawn from
\* [min, max] and create_random_zip returns
CreateZip ==
    /\ pc = "generate"
    /\ paths < N
    /\ \E size \in config.min_test_file_size_bytes .. config.max_test_file_size_bytes :
          fsize' = Append(fsize, ZipFileSize(size))
    /\ scratch' = scratch \cup {paths}
    /\ paths' = paths + 1
    /\ UNCHANGED <<config, cpu_count, snapshot, completion, pc, raised, temp_dir,
                   clients, nclients, nclosed, submitted, queue, numThreads, task,
                   yielded, report, opens, closes, remote>>

\* Where create_random_zip leaves the destination when it raises: not created
\* (the failure is in lines 45-48 or in opening the archive) or created and
\* partly written (the failure is in zf.write, line 50).
ZipFailureLeaves == {"nothing", "partial"}

\* lines 152-155: create_random_zip raises; the path is not appended (line 156
\* is skipped) and control goes to the finally block
CreateZipFail ==
    /\ pc = "generate"
    /\ paths < N
    /\ \E left \in ZipFailureLeaves :
          scratch' = IF left = "partial" THEN scratch \cup {paths} ELSE scratch
    /\ raised' = "SetupError"
    /\ pc' = "cleanup"
    /\ UNCHANGED <<config, cpu_count, snapshot, completion, fsize, temp_dir, paths,
                   clients, nclients, nclosed, submitted, queue, numThreads, task,
                   yielded, report, opens, closes, remote>>

\* EndGenerate with the loop left one artifact early.
EndGenerate_OneShort ==
    /\ pc = "generate"
    /\ paths >= N - 1
    /\ pc' = IF keep_alive THEN "clients" ELSE "submit"
    /\ UNCHANGED <<config, cpu_count, snapshot, completion, fsize, raised, temp_dir,
                   scratch, paths, clients, nclients, nclosed, submitted, queue,
                   numThreads, task, yielded, report, opens, closes, remote>>

\* lines 152, 157-161: the generation loop ends; max_workers is computed; without
\* keep-alive clients is [None] * max_workers
EndGenerate ==
    /\ pc = "generate"
    /\ paths = N
    /\ pc' = IF keep_alive THEN "clients" ELSE "submit"
    /\ UNCHANGED <<config, cpu_count, snapshot, completion, fsize, raised, temp_dir,
                   scratch, paths, clients, nclients, nclosed, submitted, queue,
                   numThreads, task, yielded, report, opens, closes, remote>>

\* line 159: one _create_client(config) of the comprehension returns
CreateClient ==
    /\ pc = "clients"
    /\ nclients < max_workers
    /\ clients' = [clients EXCEPT ![nclients] = "open"]
    /\ nclients' = nclients + 1
    /\ opens' = opens + 1
    /\ UNCHANGED <<config, cpu_count, snapshot, completion, fsize, pc, raised,
                   temp_dir, scratch, paths, nclosed, submitted, queue, numThreads,
                   task, yielded, report, closes, remote>>

\* line 159: _create_client(config) raises; nothing catches it before the
\* finally block, and the sessions already opened are not closed
CreateClientFail ==
    /\ pc = "clients"
    /\ nclients < max_workers
    /\ raised' = "ConnectError"
    /\ pc' = "cleanup"
    /\ UNCHANGED <<config, cpu_count, snapshot, completion, fsize, temp_dir,
                   scratch, paths, clients, nclients, nclosed, submitted, queue,
                   numThreads, task, yielded, report, opens, closes, remote>>

\* line 159: the comprehension is complete
EndClients ==
    /\ pc = "clients"
    /\ nclients = max_workers
    /\ pc' = "submit"
    /\ UNCHANGED <<config, cpu_count, snapshot, completion, fsize, raised, temp_dir,
                   scratch, paths, clients, nclients, nclosed, submitted, queue,
                   numThreads, task, yielded, report, opens, closes, remote>>

\* lines 163-169: executor.submit of the next artifact: the work item is queued
\* and the executor starts a worker thread while fewer than max_workers exist
Submit ==
    /\ pc = "submit"
    /\ submitted < paths
    /\ queue' = Append(queue, submitted)
    /\ task' = [task EXCEPT ![submitted].pc = "queued",
                            ![submitted].pooled = keep_alive,
                            ![submitted].slot =
                                IF keep_alive THEN ClientOf(submitted) ELSE -1]
    /\ submitted' = submitted + 1
    /\ numThreads' = IF numThreads < max_workers THEN numThreads + 1 ELSE numThreads
    /\ UNCHANGED <<config, cpu_count, snapshot, completion, fsize, pc, raised,
                   temp_dir, scratch, paths, clients, nclients, nclosed, yielded,
                   report, opens, closes, remote>>

\* lines 165, 171: all futures are submitted
EndSubmit ==
    /\ pc = "submit"
    /\ submitted = paths
    /\ pc' = "collect"
    /\ snapshot' = Finished
    /\ UNCHANGED <<config, cpu_count, completion, fsize, raised, temp_dir, scratch,
                   paths, clients, nclients, nclosed, submitted, queue, numThreads,
                   task, yielded, report, opens, closes, remote>>

\* NextYielded of a loop that takes any finished future.
NextYielded_AnyFinished == {i \in Finished : i \notin yielded}

\* line 172: the futures as_completed may yield next: in any order those that
\* were finished when it started (it keeps them in a set), and after them the
\* others in the order they finished
NextYielded ==
    IF snapshot # {} THEN snapshot
    ELSE IF completion # <<>> THEN {Head(completion)}
    ELSE {}

\* lines 172-177: as_completed yields a finished future whose call returned;
\* its FileStat is appended to the report
Collect(i) ==
    /\ pc = "collect"
    /\ i \in NextYielded
    /\ task[i].pc = "returned"
    /\ yielded' = yielded \cup {i}
    /\ report' = Append(report, FileStat(i))
    /\ snapshot' = snapshot \ {i}
    /\ completion' = SelectSeq(completion, LAMBDA k : k # i)
    /\ UNCHANGED <<config, cpu_count, fsize, pc, raised, temp_dir, scratch, paths,
                   clients, nclients, nclosed, submitted, queue, numThreads, task,
                   opens, closes, remote>>

\* CollectRaise with the exception leaving the with block without the
\* executor's shutdown.
CollectRaise_NoShutdown(i) ==
    /\ pc = "collect"
    /\ i \in NextYielded
    /\ task[i].pc = "raised"
    /\ yielded' = yielded \cup {i}
    /\ raised' = "WorkerError"
    /\ pc' = "cleanup"
    /\ snapshot' = {}
    /\ completion' = <<>>
    /\ UNCHANGED <<config, cpu_count, fsize, temp_dir, scratch, paths, clients,
                   nclients, nclosed, submitted, queue, numThreads, task, report,
                   opens, closes, remote>>

\* line 173: future.result() re-raises the exception of a call that raised;
\* the with block is left
CollectRaise(i) ==
    /\ pc = "collect"
    /\ i \in NextYielded
    /\ task[i].pc = "raised"
    /\ yielded' = yielded \cup {i}
    /\ raised' = "WorkerError"
    /\ pc' = "shutdown"
    /\ snapshot' = {}
    /\ completion' = <<>>
    /\ UNCHANGED <<config, cpu_count, fsize, temp_dir, scratch, paths, clients,
                   nclients, nclosed, submitted, queue, numThreads, task, report,
                   opens, closes, remote>>

\* EndCollect with the collection loop left before the futures are done.
EndCollect_NoWait ==
    /\ pc = "collect"
    /\ pc' = IF keep_alive THEN "close_clients" ELSE "cleanup"
    /\ UNCHANGED <<config, cpu_count, snapshot, completion, fsize, raised, temp_dir,
                   scratch, paths, clients, nclients, nclosed, submitted, queue,
                   numThreads, task, yielded, report, opens, closes, remote>>

\* lines 172, 178-180: as_completed is exhausted; every future is done, so
\* leaving the with block (executor.shutdown(wait=True)) does not wait
EndCollect ==
    /\ pc = "collect"
    /\ yielded = Artifacts
    /\ pc' = IF keep_alive THEN "close_clients" ELSE "cleanup"
    /\ UNCHANGED <<config, cpu_count, snapshot, completion, fsize, raised, temp_dir,
                   scratch, paths, clients, nclients, nclosed, submitted, queue,
                   numThreads, task, yielded, report, opens, closes, remote>>

\* Shutdown that waits for the work items to return a result.
Shutdown_WaitReturned ==
    /\ pc = "shutdown"
    /\ \A i \in Artifacts : task[i].pc = "returned"
    /\ pc' = "cleanup"
    /\ UNCHANGED <<config, cpu_count, snapshot, completion, fsize, raised, temp_dir,
                   scratch, paths, clients, nclients, nclosed, submitted, queue,
                   numThreads, task, yielded, report, opens, closes, remote>>

\* line 163: leaving the with block with an exception propagating is
\* executor.shutdown(wait=True), which returns once every submitted work item
\* has run; lines 180-182 are skipped
Shutdown ==
    /\ pc = "shutdown"
    /\ Finished = Artifacts
    /\ pc' = "cleanup"
    /\ UNCHANGED <<config, cpu_count, snapshot, completion, fsize, raised, temp_dir,
                   scratch, paths, clients, nclients, nclosed, submitted, queue,
                   numThreads, task, yielded, report, opens, closes, remote>>

\* lines 181-182: c.close() of the next pooled session
CloseClient ==
    /\ pc = "close_clients"
    /\ nclosed < nclients
    /\ clients' = [clients EXCEPT ![nclosed] = "closed"]
    /\ nclosed' = nclosed + 1
    /\ closes' = closes + 1
    /\ UNCHANGED <<config, cpu_count, snapshot, completion, fsize, pc, raised,
                   temp_dir, scratch, paths, nclients, submitted, queue, numThreads,
                   task, yielded, report, opens, remote>>

\* line 181: the close loop ends
EndCloseClients ==
    /\ pc = "close_clients"
    /\ nclosed = nclients
    /\ pc' = "cleanup"
    /\ UNCHANGED <<config, cpu_count, snapshot, completion, fsize, raised, temp_dir,
                   scratch, paths, clients, nclients, nclosed, submitted, queue,
                   numThreads, task, yielded, report, opens, closes, remote>>

\* What the finally block leaves in the scratch directory: lines 184-186
\* remove every file named in paths.
AfterRemovePaths == scratch \ (0 .. (paths - 1))

\* lines 183-188: the finally block; os.rmdir(temp_dir) removes an empty
\* directory and raises OSError on one that still holds a file
Cleanup ==
    /\ pc = "cleanup"
    /\ scratch' = AfterRemovePaths
    /\ temp_dir' = (AfterRemovePaths # {})
    /\ raised' = IF AfterRemovePaths # {} THEN "OSError" ELSE raised
    /\ pc' = "done"
    /\ UNCHANGED <<config, cpu_count, snapshot, completion, fsize, paths, clients,
                   nclients, nclosed, submitted, queue, numThreads, task, yielded,
                   report, opens, closes, remote>>

(***************************************************************************)
(* sftp_operation: one call per artifact, run by a worker thread           *)
(***************************************************************************)

\* The futures finished and not yet yielded once a step of the call of artifact
\* i is taken, which ends the call when finishes is true: the future is set
\* done and as_completed, while it runs (line 172), is notified.
AfterCall(i, finishes) ==
    IF finishes /\ pc \in {"submit", "collect"} THEN Append(completion, i)
    ELSE completion

\* A worker thread takes the head of the work queue and enters sftp_operation
\* (lines 104-105, 112-113): file_size is os.path.getsize(local_path); with a
\* pooled client connect_time is 0.0
StartTask(i) ==
    /\ queue # <<>>
    /\ Head(queue) = i
    /\ Cardinality(Running) < numThreads
    /\ queue' = Tail(queue)
    /\ task' = [task EXCEPT
                  ![i].attempts = task[i].attempts + 1,
                  ![i].size = fsize[i + 1],
                  ![i].pc = IF task[i].pooled THEN "open_sftp" ELSE "connect",
                  ![i].connect_time = IF task[i].pooled THEN "zero" ELSE "unset"]
    /\ UNCHANGED <<config, cpu_count, snapshot, completion, fsize, pc, raised,
                   temp_dir, scratch, paths, clients, nclients, nclosed, submitted,
                   numThreads, yielded, report, opens, closes, remote>>

\* lines 106-109: _create_client returns a fresh session
Connect(i) ==
    /\ task[i].pc = "connect"
    /\ task' = [task EXCEPT ![i].pc = "open_sftp",
                            ![i].client = "open",
                            ![i].connect_time = "measured"]
    /\ opens' = opens + 1
    /\ UNCHANGED <<config, cpu_count, snapshot, completion, fsize, pc, raised,
                   temp_dir, scratch, paths, clients, nclients, nclosed, submitted,
                   queue, numThreads, yielded, report, closes, remote>>

\* lines 110-111: _create_client raises; the call returns a failed FileStat at once
ConnectFail(i) ==
    /\ task[i].pc = "connect"
    /\ task' = [task EXCEPT ![i].pc = "returned",
                            ![i].connect_time = "measured",
                            ![i].transfer_time = "zero",
                            ![i].success = FALSE,
                            ![i].error = "connect"]
    /\ completion' = AfterCall(i, TRUE)
    /\ UNCHANGED <<config, cpu_count, snapshot, fsize, pc, raised, temp_dir,
                   scratch, paths, clients, nclients, nclosed, submitted, queue,
                   numThreads, yielded, report, opens, closes, remote>>

\* lines 115-116: client.open_sftp() returns and the transfer timer starts
OpenSftp(i) ==
    /\ task[i].pc = "open_sftp"
    /\ task' = [task EXCEPT ![i].pc = "put", ![i].timer = "running"]
    /\ UNCHANGED <<config, cpu_count, snapshot, completion, fsize, pc, raised,
                   temp_dir, scratch, paths, clients, nclients, nclosed, submitted,
                   queue, numThreads, yielded, report, opens, closes, remote>>

\* line 115: client.open_sftp() raises outside any try block; the exception
\* ends the call and is stored in the future
OpenSftpFail(i) ==
    /\ task[i].pc = "open_sftp"
    /\ task' = [task EXCEPT ![i].pc = "raised", ![i].error = "open_sftp"]
    /\ completion' = AfterCall(i, TRUE)
    /\ UNCHANGED <<config, cpu_count, snapshot, fsize, pc, raised, temp_dir,
                   scratch, paths, clients, nclients, nclosed, submitted, queue,
                   numThreads, yielded, report, opens, closes, remote>>

\* The locals of a call after the SFTP request `name` of lines 130-131 was
\* made: it was attempted, it completed when it did not raise, and it lies in
\* the measured interval when the transfer timer is running.
AfterRequest(t, name, ok) ==
    [t EXCEPT !.attempted = @ \cup {name},
              !.completed = IF ok THEN @ \cup {name} ELSE @,
              !.timed = IF t.timer = "running" THEN @ \cup {name} ELSE @]

\* line 130: sftp.put uploads the file
Put(i) ==
    /\ task[i].pc = "put"
    /\ remote' = remote \cup {i}
    /\ task' = [task EXCEPT ![i] = [AfterRequest(task[i], "put", TRUE) EXCEPT
                                       !.pc = "remove"]]
    /\ UNCHANGED <<config, cpu_count, snapshot, completion, fsize, pc, raised,
                   temp_dir, scratch, paths, clients, nclients, nclosed, submitted,
                   queue, numThreads, yielded, report, opens, closes>>

\* AfterTransfer with success decided by the upload alone.
AfterTransfer_PutDecides(t, ok, err) ==
    [t EXCEPT !.pc = IF config.sftp_sleep_interval > 0 THEN "sleep" ELSE "returned",
              !.transfer_time = "measured",
              !.timer = "stopped",
              !.client = IF keep_alive THEN t.client ELSE "closed",
              !.success = ("put" \in t.completed),
              !.error = IF "put" \in t.completed THEN "none" ELSE err]

\* lines 137-142: what is left of the call once the try block of lines 129-136
\* has set success and error: the timer stops, the channel is closed, a session
\* of the call's own is closed; without a positive sleep interval the call
\* returns (line 144)
AfterTransfer(t, ok, err) ==
    [t EXCEPT !.pc = IF config.sftp_sleep_interval > 0 THEN "sleep" ELSE "returned",
              !.transfer_time = "measured",
              !.timer = "stopped",
              !.client = IF keep_alive THEN t.client ELSE "closed",
              !.success = ok,
              !.error = err]

\* line 141: client.close() runs only without keep-alive
ClosesAfterTransfer == IF keep_alive THEN closes ELSE closes + 1

\* lines 130, 134-142: sftp.put raises part-way; line 131 is skipped, so the
\* partly written remote file stays on the target
PutFail(i) ==
    /\ task[i].pc = "put"
    /\ remote' = remote \cup {i}
    /\ task' = [task EXCEPT ![i] =
                  AfterTransfer(AfterRequest(task[i], "put", FALSE), FALSE, "put")]
    /\ closes' = ClosesAfterTransfer
    /\ completion' = AfterCall(i, config.sftp_sleep_interval <= 0)
    /\ UNCHANGED <<config, cpu_count, snapshot, fsize, pc, raised, temp_dir,
                   scratch, paths, clients, nclients, nclosed, submitted, queue,
                   numThreads, yielded, report, opens>>

\* lines 131-133, 137-142: sftp.remove deletes the remote copy
Remove(i) ==
    /\ task[i].pc = "remove"
    /\ remote' = remote \ {i}
    /\ task' = [task EXCEPT ![i] =
                  AfterTransfer(AfterRequest(task[i], "remove", TRUE), TRUE, "none")]
    /\ closes' = ClosesAfterTransfer
    /\ completion' = AfterCall(i, config.sftp_sleep_interval <= 0)
    /\ UNCHANGED <<config, cpu_count, snapshot, fsize, pc, raised, temp_dir,
                   scratch, paths, clients, nclients, nclosed, submitted, queue,
                   numThreads, yielded, report, opens>>

\* lines 131, 134-142: sftp.remove raises
RemoveFail(i) ==
    /\ task[i].pc = "remove"
    /\ task' = [task EXCEPT ![i] =
                  AfterTransfer(AfterRequest(task[i], "remove", FALSE), FALSE, "remove")]
    /\ closes' = ClosesAfterTransfer
    /\ completion' = AfterCall(i, config.sftp_sleep_interval <= 0)
    /\ UNCHANGED <<config, cpu_count, snapshot, fsize, pc, raised, temp_dir,
                   scratch, paths, clients, nclients, nclosed, submitted, queue,
                   numThreads, yielded, report, opens, remote>>

\* lines 142-144: time.sleep(config.sftp_sleep_interval), then the call returns
Sleep(i) ==
    /\ task[i].pc = "sleep"
    /\ task' = [task EXCEPT ![i].pc = "returned", ![i].slept = TRUE]
    /\ completion' = AfterCall(i, TRUE)
    /\ UNCHANGED <<config, cpu_count, snapshot, fsize, pc, raised, temp_dir,
                   scratch, paths, clients, nclients, nclosed, submitted, queue,
                   numThreads, yielded, report, opens, closes, remote>>

Next ==
    \/ Mkdtemp
    \/ MkdtempFail
    \/ CreateZip
    \/ CreateZipFail
    \/ EndGenerate
    \/ CreateClient
    \/ CreateClientFail
    \/ EndClients
    \/ Submit
    \/ EndSubmit
    \/ \E i \in Artifacts : Collect(i)
    \/ \E i \in Artifacts : CollectRaise(i)
    \/ EndCollect
    \/ Shutdown
    \/ CloseClient
    \/ EndCloseClients
    \/ Cleanup
    \/ \E i \in Artifacts : StartTask(i)
    \/ \E i \in Artifacts : Connect(i)
    \/ \E i \in Artifacts : ConnectFail(i)
    \/ \E i \in Artifacts : OpenSftp(i)
    \/ \E i \in Artifacts : OpenSftpFail(i)
    \/ \E i \in Artifacts : Put(i)
    \/ \E i \in Artifacts : PutFail(i)
    \/ \E i \in Artifacts : Remove(i)
    \/ \E i \in Artifacts : RemoveFail(i)
    \/ \E i \in Artifacts : Sleep(i)

\* The steps of the thread that runs run_tests.
OrchestratorStep ==
    \/ Mkdtemp
    \/ MkdtempFail
    \/ CreateZip
    \/ CreateZipFail
    \/ EndGenerate
    \/ CreateClient
    \/ CreateClientFail
    \/ EndClients
    \/ Submit
    \/ EndSubmit
    \/ \E i \in Artifacts : Collect(i)
    \/ \E i \in Artifacts : CollectRaise(i)
    \/ EndCollect
    \/ Shutdown
    \/ CloseClient
    \/ EndCloseClients
    \/ Cleanup

\* The steps of the sftp_operation call of artifact i, on a worker thread.
WorkerStep(i) ==
    /\ i \in Artifacts
    /\ \/ StartTask(i)
       \/ Connect(i)
       \/ ConnectFail(i)
       \/ OpenSftp(i)
       \/ OpenSftpFail(i)
       \/ Put(i)
       \/ PutFail(i)
       \/ Remove(i)
       \/ RemoveFail(i)
       \/ Sleep(i)

Spec == Init /\ [][Next]_vars

\* The program with threads that keep running: the orchestrator thread and
\* every worker call take their next step when one stays possible (each
\* blocking network step returns or fails).
SpecFair ==
    /\ InitFair
    /\ [][Next]_vars
    /\ WF_vars(OrchestratorStep)
    /\ \A i \in 0 .. (MaxFiles - 1) : WF_vars(WorkerStep(i))

\* The same program on the configurations that vary the artifact sizes.
SpecSize == InitSize /\ [][Next]_vars

TypeOK ==
    /\ pc \in {"mkdtemp", "generate", "clients", "submit", "collect", "shutdown",
               "close_clients", "cleanup", "done"}
    /\ raised \in {"none", "SetupError", "ConnectError", "WorkerError", "OSError"}
    /\ paths \in 0 .. N
    /\ submitted \in 0 .. paths
    /\ numThreads \in 0 .. max_workers
    /\ Len(report) <= N

(***************************************************************************)
(* Properties                                                              *)
(***************************************************************************)

\* The run was not aborted by a setup error (mkdtemp or create_random_zip).
SetupSucceeded == raised \notin {"SetupError", "OSError"}

\* Number of entries of the report that carry the name test_i.zip.
OutcomesOf(i) == Cardinality({k \in 1 .. Len(report) : report[k].name = i})

\* The run got as far as handing all N artifacts to the executor (line 171).
DispatchedAll ==
    /\ pc \in {"collect", "shutdown", "close_clients", "cleanup", "done"}
    /\ raised \in {"none", "WorkerError"}

\* C1: once a run that dispatched all N artifacts has ended, the report holds
\* exactly one FileStat per submitted artifact: N entries, none missing, none
\* duplicated.
C1_OneOutcomePerArtifact ==
    (pc = "done" /\ DispatchedAll) =>
        /\ Len(report) = N
        /\ \A i \in Artifacts : OutcomesOf(i) = 1

\* C2: every failure inside an artifact's sftp_operation call ends that call
\* with a FileStat of success=false and an error string, never with an
\* exception, and a run that dispatched its artifacts ends without raising.
C2_FailuresCaptured ==
    /\ \A i \in Artifacts :
          (task[i].pc \in FinishedPcs /\ task[i].error # "none") =>
              (task[i].pc = "returned" /\ ~task[i].success)
    /\ (pc = "done" /\ DispatchedAll) => raised = "none"

\* C3: in keep-alive mode no pooled session has an SFTP channel in use by two
\* sftp_operation calls at the same time.
C3_PooledSessionExclusive ==
    keep_alive => \A j \in 0 .. (max_workers - 1) : Cardinality(UsersOf(j)) <= 1

\* C4: when an artifact's attempt failed at connect, put or remove, then at the
\* end of the run every artifact was attempted exactly once (no retry, no
\* cancellation) and every other artifact has its own outcome in the report.
C4_FaultIsolation ==
    pc = "done" =>
        \A i \in Artifacts :
            task[i].error \in {"connect", "put", "remove"} =>
                /\ task[i].attempts = 1
                /\ \A k \in Artifacts \ {i} :
                      task[k].attempts = 1 /\ OutcomesOf(k) = 1

\* C5: with keep-alive and N >= C, no artifact is dispatched before C sessions
\* are open, no session is opened afterwards, and when a run whose setup
\* succeeded ends, exactly C sessions were opened and all C are closed.
C5_PoolOpenedAndClosed ==
    (keep_alive /\ N >= max_workers) =>
        /\ submitted > 0 => opens = max_workers
        /\ (pc = "done" /\ SetupSucceeded) =>
              /\ opens = max_workers
              /\ closes = max_workers
              /\ \A j \in 0 .. (max_workers - 1) : clients[j] = "closed"

\* C6: without keep-alive every session a worker opened is closed by that
\* worker before its call ends, whether the transfer succeeded or failed, so
\* when the run ends there are as many closes as opens and every artifact had
\* one call.
C6_EphemeralOpenedAndClosed ==
    ~keep_alive =>
        /\ \A i \in Artifacts : task[i].pc \in FinishedPcs => task[i].client # "open"
        /\ (pc = "done" /\ SetupSucceeded) =>
              /\ closes = opens
              /\ \A i \in Artifacts : task[i].attempts = 1

\* C7: when run_tests has ended, on any exit path, no file remains in the
\* scratch directory and the scratch directory is removed.
C7_ScratchReclaimed ==
    pc = "done" => (scratch = {} /\ ~temp_dir)

\* C8: when every session open failed (no session was ever opened) and setup
\* succeeded, the run ends without raising and the report holds N outcomes,
\* each with success=false and a connection error, for either keep-alive
\* setting.
C8_UnreachableHostReported ==
    (pc = "done" /\ SetupSucceeded /\ opens = 0) =>
        /\ raised = "none"
        /\ Len(report) = N
        /\ \A k \in 1 .. Len(report) :
              ~report[k].success /\ report[k].error = "connect"

\* C9: no session is opened (or tried) and no artifact is dispatched before
\* all N artifacts are generated; when generation fails the run ends with no
\* session opened, nothing dispatched and nothing attempted, and by the time
\* the run has ended every artifact already created is deleted.
C9_GenerateBeforeTransfer ==
    /\ (\/ pc \in {"clients", "submit", "collect", "shutdown", "close_clients"}
        \/ opens > 0
        \/ nclients > 0
        \/ submitted > 0
        \/ \E i \in Artifacts : task[i].pc # "unsubmitted")
       => paths = N
    /\ (raised \in {"SetupError", "OSError"}) =>
          /\ pc \in {"cleanup", "done"}
          /\ opens = 0
          /\ nclients = 0
          /\ submitted = 0
          /\ \A i \in Artifacts : task[i].attempts = 0
          /\ pc = "done" => scratch \cap (0 .. (paths - 1)) = {}

\* C9 witness: a run aborted by a generation failure after at least one
\* artifact had been created.
C9_Witness ==
    /\ pc = "done"
    /\ raised \in {"SetupError", "OSError"}
    /\ paths > 0
    /\ paths < N

\* C10: a call that has returned its FileStat has performed the sleep step
\* exactly when sftp_sleep_interval > 0, also when it failed while opening the
\* session.
C10_SleepAfterEveryAttempt ==
    \A i \in Artifacts :
        task[i].pc = "returned" => (task[i].slept <=> config.sftp_sleep_interval > 0)

\* C11: the size of every outcome in the report lies in [min, max]; with
\* num_test_files=3, min=max=1000, one worker and every transfer successful
\* the finished run's report has 3 entries, each of size 1000.
C11_SizeWithinBounds ==
    /\ \A k \in 1 .. Len(report) :
          /\ config.min_test_file_size_bytes <= report[k].size
          /\ report[k].size <= config.max_test_file_size_bytes
    /\ (/\ pc = "done"
        /\ raised = "none"
        /\ N = 3
        /\ max_workers = 1
        /\ config.min_test_file_size_bytes = 1000
        /\ config.max_test_file_size_bytes = 1000
        /\ \A k \in 1 .. Len(report) : report[k].success)
       => (Len(report) = 3 /\ \A k \in 1 .. Len(report) : report[k].size = 1000)

\* C12: the orchestrator is past the transfer phase only when every submitted
\* call has finished, and once the artifacts are dispatched the run eventually
\* ends with the attempt of every artifact finished, whatever attempts failed.
C12_RunsToCompletion ==
    /\ [](pc \in {"close_clients", "cleanup", "done"} /\ DispatchedAll
            => Finished = Artifacts)
    /\ (pc = "collect") ~> (pc = "done" /\ Finished = Artifacts)

\* C12 witness: a run of several artifacts that ended after a call raised.
C12_Witness ==
    /\ pc = "done"
    /\ raised = "WorkerError"
    /\ N >= 2
    /\ Finished = Artifacts

\* Calls that ran with pooled session j as their client (line 115).
CarriedBy(j) == {i \in Artifacts : task[i].attempts > 0 /\ task[i].slot = j}

\* C13: in keep-alive mode the call of submission index i runs on pooled
\* session i mod C, and after a drained run session j has carried as many calls
\* as there are indices i in 0..N-1 with i mod C = j.
C13_RoundRobinSessions ==
    keep_alive =>
        /\ \A i \in Artifacts :
              task[i].pc # "unsubmitted" => task[i].slot = i % max_workers
        /\ (pc = "done" /\ DispatchedAll) =>
              \A j \in 0 .. (max_workers - 1) :
                  Cardinality(CarriedBy(j))
                      = Cardinality({i \in Artifacts : i % max_workers = j})

\* C13 witness: a drained keep-alive run with more artifacts than sessions
\* whose first outcome is not that of the first artifact.
C13_Witness ==
    /\ keep_alive
    /\ pc = "done"
    /\ DispatchedAll
    /\ max_workers >= 2
    /\ N > max_workers
    /\ Len(report) >= 1
    /\ report[1].name # 0

\* min(C, N)
MinWorkersFiles == IF max_workers < N THEN max_workers ELSE N

\* C14: at most min(C, N) calls execute at once, and the worker threads and
\* the pooled sessions set up for the run number min(C, N).
C14_ConcurrencyBound ==
    /\ Cardinality(Running) <= MinWorkersFiles
    /\ numThreads <= MinWorkersFiles
    /\ (keep_alive /\ pc \in {"submit", "collect", "shutdown", "close_clients"})
          => nclients = MinWorkersFiles

\* C15: in keep-alive mode a pooled session is closed only when the call of
\* every submitted artifact has returned and its outcome is collected, and
\* once every call of a dispatched run has returned its outcome all pooled
\* sessions are closed before the finally block and the return.
C15_PoolClosedAfterDrain ==
    keep_alive =>
        /\ (\E j \in 0 .. (max_workers - 1) : clients[j] = "closed") =>
              /\ \A i \in Artifacts : task[i].pc = "returned"
              /\ yielded = Artifacts
        /\ (/\ pc \in {"cleanup", "done"}
            /\ DispatchedAll
            /\ \A i \in Artifacts : task[i].pc = "returned")
           => /\ \A j \in 0 .. (max_workers - 1) : clients[j] = "closed"
              /\ closes = max_workers

\* C15 witness: a keep-alive run of several artifacts, one of them failed,
\* that ended with every pooled session closed.
C15_Witness ==
    /\ keep_alive
    /\ pc = "done"
    /\ N >= 2
    /\ max_workers >= 2
    /\ \A j \in 0 .. (max_workers - 1) : clients[j] = "closed"
    /\ \E i \in Artifacts : task[i].error = "put"

\* C16: once an artifact's call has ended, no copy of the artifact remains on
\* the target, and after a run the target holds no file of the run.
C16_NoRemoteResidue ==
    /\ \A i \in Artifacts : task[i].pc \in FinishedPcs => i \notin remote
    /\ pc = "done" => remote = {}

\* C17: the measured transfer interval of a call covers sftp.put only: the
\* timer is stopped before sftp.remove is called.
C17_TimerCoversPutOnly ==
    \A i \in Artifacts : "remove" \notin task[i].timed

\* C18: the local file of a submitted artifact exists as long as its call has
\* not ended; the finally block starts only when every submitted call has
\* ended, also after future.result() raised; and when the run has ended every
\* artifact file is deleted.
C18_LocalFileOutlivesAttempt ==
    /\ \A i \in Artifacts :
          task[i].pc \in ({"queued"} \cup RunningPcs) => i \in scratch
    /\ pc \in {"cleanup", "done"} =>
          \A i \in Artifacts : task[i].pc \in (FinishedPcs \cup {"unsubmitted"})
    /\ pc = "done" => scratch \cap (0 .. (paths - 1)) = {}

\* C18 witness: a run ended by a re-raised worker exception, after another
\* artifact was uploaded, with every artifact file deleted.
C18_Witness ==
    /\ pc = "done"
    /\ raised = "WorkerError"
    /\ paths = N
    /\ N >= 2
    /\ scratch = {}
    /\ \E i \in Artifacts : "put" \in task[i].completed

\* C20: of every FileStat a call returned: success is true exactly when
\* sftp.put and sftp.remove both completed, and then error is None; a failed
\* outcome has an error string; the outcome of a failed _create_client has
\* transfer_time 0 and neither request was attempted; with keep-alive
\* connect_time is 0.
C20_OutcomeInvariant ==
    /\ \A i \in Artifacts :
          task[i].pc = "returned" =>
              /\ task[i].success <=> task[i].completed = {"put", "remove"}
              /\ task[i].success => task[i].error = "none"
              /\ ~task[i].success => task[i].error # "none"
              /\ task[i].error = "connect" =>
                    (task[i].transfer_time = "zero" /\ task[i].attempted = {})
              /\ keep_alive => task[i].connect_time = "zero"
    /\ \A k \in 1 .. Len(report) :
          /\ report[k].success <=> report[k].error = "none"
          /\ report[k].error = "connect" => report[k].transfer_time = "zero"
          /\ keep_alive => report[k].connect_time = "zero"

\* C20 witness: a run with a successful outcome, one failed at the remote
\* delete and one failed at the session open.
C20_Witness ==
    /\ pc = "done"
    /\ \E k \in 1 .. Len(report) : report[k].success
    /\ \E k \in 1 .. Len(report) : report[k].error = "remove"
    /\ \E k \in 1 .. Len(report) : report[k].error = "connect"

\* C19: the report changes only by the orchestrator's append, in the collection
\* loop, of one outcome at a time: the outcome of the artifact that completed
\* first among those not yet reported (completion order); the report never
\* holds more outcomes than artifacts were submitted.
C19_ReportInCompletionOrder ==
    [][report' # report =>
          /\ pc = "collect"
          /\ Len(report') = Len(report) + 1
          /\ SubSeq(report', 1, Len(report)) = report
          /\ completion # <<>>
          /\ report'[Len(report')].name = Head(completion)
          /\ report'[Len(report')] = FileStat(Head(completion))
          /\ Len(report') <= submitted']_vars

\* C19 as amended: the report changes only by the orchestrator's append, in
\* the collection loop, of one outcome at a time, that of a call that returned
\* and is not yet reported; the outcomes of the calls that had ended when the
\* loop started come first, in any order, and the others follow in completion
\* order; the report never holds more outcomes than artifacts were submitted.
C19_ReportInArrivalOrder ==
    [][report' # report =>
          /\ pc = "collect"
          /\ Len(report') = Len(report) + 1
          /\ SubSeq(report', 1, Len(report)) = report
          /\ Len(report') <= submitted'
          /\ LET i == report'[Len(report')].name
             IN  /\ task[i].pc = "returned"
                 /\ OutcomesOf(i) = 0
                 /\ report'[Len(report')] = FileStat(i)
                 /\ \/ i \in snapshot
                    \/ snapshot = {} /\ completion # <<>> /\ i = Head(completion)]_vars

\* C19 witness: the collection loop has appended an outcome while a call that
\* had ended before the loop started is not yet reported and another call has
\* ended since.
C19_Witness ==
    /\ pc = "collect"
    /\ Len(report) >= 1
    /\ snapshot # {}
    /\ \E k \in 1 .. Len(completion) : completion[k] \notin snapshot

====
